---------------------------- MODULE Spec2Model ----------------------------
(***************************************************************************)
(* A model of ext/gitsha.c: GitSha.bruteforce! searches, with ncpus        *)
(* native threads, for a 16 character hex nonce that makes the SHA-1 of a  *)
(* framed commit object start with a given prefix.                         *)
(*                                                                         *)
(* Bytes are naturals 0..255.  C indices are 0-based, TLA+ sequences are   *)
(* 1-based: byte k of a C buffer b is b[k + 1].                            *)
(*                                                                         *)
(* size_t is 64 bits wide in the build; the model scales the two places    *)
(* where its width shows: the loop counter wraps at 2^CounterBits and a    *)
(* length wraps at 2^SizeBits.  A worker is followed through MaxRounds     *)
(* rounds of its loop.                                                     *)
(*                                                                         *)
(* Threads interleave at the statements of the source, and a statement     *)
(* sees the writes of the statements before it.  SHA1 is any function      *)
(* from messages to Digests.  pthread_cond_wait is called with a mutex     *)
(* the caller has not locked: it releases the mutex, blocks, and locks     *)
(* the mutex when it wakes, as for a mutex the caller holds; it may wake   *)
(* with no signal.                                                         *)
(***************************************************************************)
EXTENDS Integers, Sequences, FiniteSets, TLC

VARIABLES
    cpc,        \* position of the calling (main) thread in bruteforce / start_bruteforce
    ci,         \* the loop variable i of start_bruteforce
    call,       \* the arguments of the call of bruteforce
    workers,    \* the worker_t array: index -> worker_t
    th,         \* per worker thread: position, the loop's local counter, rounds, pending signal
    allocated,  \* indexes of the workers whose scratch_buff and prefix are malloc'ed and not freed
    mutex,      \* owner of finished_mutex: Nobody, MainThread or Worker(i)
    sigterm,    \* the process-wide disposition of SIGTERM
    proc,       \* "running", "killed" (default action of SIGTERM) or "crashed"
    ret,        \* the VALUE start_bruteforce returns
    sha1,       \* the digests SHA1 gave to the messages a loop accepted: <<message, digest>>
    rejected,   \* the messages whose digest a loop rejected
    before,     \* the process-wide state when bruteforce was called
    tested,     \* history: counter value -> the worker whose loop tested it first
    enc         \* a call of write_counter_hex on its own: its counter, buff and position

vars ==
    <<cpc, ci, call, workers, th, allocated, mutex, sigterm, proc, ret, sha1, before, tested,
      rejected, enc>>

----------------------------------------------------------------------------
(* Bounds *)

\* the scaled width of the loop counter (size_t counter, 64 bits in the build)
CounterBits == 2

\* the scaled width of size_t lengths
SizeBits == 16

\* the largest ncpus a call is made with
MaxCpus == 2

\* the ncpus of the calls of the specification of the counter partition
PartitionCpus == 3

\* the longest of the short commit_data of the framing specification
MaxContentLen == 2

\* the rounds of its loop a worker is followed through
MaxRounds == 2

----------------------------------------------------------------------------
(* Values *)

\* an indeterminate value: uninitialized or out-of-bounds memory
Indeterminate == -1

DigestLen == 20

NonceLen == 16

Repeat(b, n) == [k \in 1..n |-> b]

\* "0123456789abcdef"
hex_lut == <<48, 49, 50, 51, 52, 53, 54, 55, 56, 57, 97, 98, 99, 100, 101, 102>>

\* "commit "
CommitSp == <<99, 111, 109, 109, 105, 116, 32>>

\* sprintf("%zu", n)
RECURSIVE Decimal(_)
Decimal(n) == IF n < 10 THEN <<48 + n>> ELSE Decimal(n \div 10) \o <<48 + (n % 10)>>

\* x >> n, without computing 2^n
RECURSIVE ShiftRight(_, _)
ShiftRight(x, n) == IF n = 0 \/ x = 0 THEN x ELSE ShiftRight(x \div 2, n - 1)

\* header_len without the byte of the terminating NUL
header_len_no_nul(data_len) == Len(CommitSp \o Decimal(data_len))

header_len(data_len) == Len(CommitSp \o Decimal(data_len)) + 1

\* a uint64_t is four 16 bit words, the least significant first
WordBase == 65536

\* the uint64_t argument that a size_t n of the model's width converts to
uint64_t(n) == <<n % WordBase, (n \div WordBase) % WordBase, 0, 0>>

\* (counter >> (i * 4)) & 0xf
Nibble(counter, i) == ShiftRight(counter[(i \div 4) + 1], (i % 4) * 4) % 16

\* write_counter_hex filling the 16 bytes from the most significant nibble
write_counter_hex_msn_first(buff, off, counter) ==
    [k \in 1..Len(buff) |->
        IF k - 1 \in off..(off + NonceLen - 1)
        THEN hex_lut[Nibble(counter, NonceLen - 1 - (k - 1 - off)) + 1]
        ELSE buff[k]]

\* write_counter_hex writing from one byte before the destination
write_counter_hex_one_before(buff, off, counter) ==
    [k \in 1..Len(buff) |->
        IF k \in off..(off + NonceLen - 1)
        THEN hex_lut[Nibble(counter, k - off) + 1]
        ELSE buff[k]]

\* buff with the 16 bytes at C offset off overwritten
write_counter_hex(buff, off, counter) ==
    [k \in 1..Len(buff) |->
        IF k - 1 \in off..(off + NonceLen - 1)
        THEN hex_lut[Nibble(counter, k - 1 - off) + 1]
        ELSE buff[k]]

\* the size_t result of a - b
SizeSub(a, b) == (a - b + 2 ^ SizeBits) % (2 ^ SizeBits)

\* the size_t result of counter += stride
CounterAdd(counter, stride) == (counter + stride) % (2 ^ CounterBits)

\* the worker_t that setup_worker fills in (complete, the thread and the
\* synchronisation pointers are set by start_bruteforce)
setup_worker(commit_data, prefix, prefix_has_half_dig, i, ncpus) ==
    LET commit_data_len == Len(commit_data)
        prefix_len == Len(prefix)
        data_length == commit_data_len + 2 + 16
        header_length == header_len(data_length)
        total_length == header_length + data_length
        sprintf == CommitSp \o Decimal(data_length) \o <<0>>
        \* malloc(total_length + 1), then the writes, the later write winning
        scratch_buff ==
            [k \in 1..(total_length + 1) |->
                IF k - 1 = header_length + commit_data_len + 1 THEN 10
                ELSE IF k - 1 = header_length + commit_data_len THEN 10
                ELSE IF k - 1 \in header_length..(header_length + commit_data_len - 1)
                    THEN commit_data[k - header_length]
                ELSE IF k <= Len(sprintf) THEN sprintf[k]
                ELSE Indeterminate]
    IN  [scratch_buff |-> scratch_buff,
         scratch_len |-> total_length,
         counter_offset |-> header_length + commit_data_len + 2,
         prefix |-> prefix,
         prefix_len |-> IF prefix_has_half_dig THEN SizeSub(prefix_len, 1) ELSE prefix_len,
         prefix_half_dig |->
            IF prefix_has_half_dig /\ prefix_len > 0 THEN prefix[prefix_len] \div 16
            ELSE Indeterminate,
         prefix_has_half_dig |-> IF prefix_has_half_dig THEN 1 ELSE 0,
         counter |-> i,
         stride |-> ncpus,
         complete |-> Indeterminate,
         sha |-> Repeat(Indeterminate, DigestLen)]

\* memcmp(a, b, n) == 0, for n within both a and b
memcmp_eq(a, b, n) == \A k \in 1..n : a[k] = b[k]

\* the test of bruteforce_loop comparing one byte too few
LoopTestShort(sha, w) ==
    IF memcmp_eq(sha, w.prefix, w.prefix_len - 1) THEN "match" ELSE "nomatch"

\* the test of bruteforce_loop: "match" or "nomatch"
LoopTest(sha, w) ==
    IF memcmp_eq(sha, w.prefix, w.prefix_len) THEN "match" ELSE "nomatch"

\* the test of bruteforce_loop_with_half_dig without the half digit
HalfDigTestNoDigit(sha, w) ==
    IF w.prefix_len >= DigestLen THEN {"nomatch", "crash"}
    ELSE IF w.prefix_len = 0 \/ memcmp_eq(sha, w.prefix, w.prefix_len)
         THEN {"match"}
         ELSE {"nomatch"}

\* the test of bruteforce_loop_with_half_dig.  With prefix_len = SIZE_MAX (an
\* empty prefix with the half digit flag) memcmp and sha[prefix_len] read out
\* of bounds: the comparison fails on some byte it reads, or the read faults.
HalfDigTest(sha, w) ==
    IF w.prefix_len >= DigestLen THEN {"nomatch", "crash"}
    ELSE IF /\ (w.prefix_len = 0 \/ memcmp_eq(sha, w.prefix, w.prefix_len))
            /\ sha[w.prefix_len + 1] \div 16 = w.prefix_half_dig
         THEN {"match"}
         ELSE {"nomatch"}

\* the outcomes of one test of the loop that worker_thread_main runs
TestOutcomes(sha, w) ==
    IF w.prefix_has_half_dig # 0 THEN HalfDigTest(sha, w) ELSE {LoopTest(sha, w)}

----------------------------------------------------------------------------
(* The inputs of the calls *)

\* a Ruby VALUE is <<type, value>>
TYPE(v) == v[1]

RSTRING_PTR(v) == v[2]

RSTRING_LEN(v) == Len(v[2])

FIX2INT(v) == v[2]

Str(bytes) == <<"T_STRING", bytes>>

Fix(n) == <<"T_FIXNUM", n>>

NilString == <<"T_NIL", <<>>>>

NilFixnum == <<"T_NIL", 0>>

\* the digests SHA1 may produce: ab 00 .. 00 and 1b 00 .. 00
Digests == {<<b>> \o Repeat(0, DigestLen - 1) : b \in {171, 27}}

\* sha_prefix: empty, the byte a0 (with the half digit flag: the digit a), the
\* 20 bytes ab 00 .. 00, 21 bytes, not a string
Prefixes ==
    {Str(<<>>), Str(<<160>>), Str(<<171>> \o Repeat(0, 19)),
     Str(<<171>> \o Repeat(0, 20)), NilString}

\* commit_data: "t", not a string
CommitData == {Str(<<116>>), NilString}

\* every byte string of at most n bytes over bytes
RECURSIVE BytesUpTo(_, _)
BytesUpTo(bytes, n) ==
    IF n = 0 THEN {<<>>}
    ELSE LET shorter == BytesUpTo(bytes, n - 1)
         IN shorter \cup {s \o <<b>> : s \in shorter, b \in bytes}

\* commit_data of the framing specification: the short strings over NUL and
\* "t", and the lengths around which the decimal length gains a digit
FramingData ==
    {Str(s) : s \in BytesUpTo({0, 116}, MaxContentLen)}
        \cup {Str(Repeat(116, 81)), Str(Repeat(116, 82))}

\* ncpus: -1 .. MaxCpus, not a fixnum
Ncpus == {Fix(n) : n \in -1..MaxCpus} \cup {NilFixnum}

Qnil == [kind |-> "Qnil", buf |-> <<>>, sha |-> <<>>]

Unset == [kind |-> "unset", buf |-> <<>>, sha |-> <<>>]

Raised(class) == [kind |-> class, buf |-> <<>>, sha |-> <<>>]

\* rb_ary_new3(2, rb_str_new(scratch_buff, scratch_len), rb_str_new(sha, 20))
ResultOf(w) ==
    [kind |-> "Array", buf |-> SubSeq(w.scratch_buff, 1, w.scratch_len),
     sha |-> SubSeq(w.sha, 1, DigestLen)]

Nobody == <<"none">>

MainThread == <<"main">>

Worker(i) == <<"worker", i>>

NoThread == [pc |-> "unborn", counter |-> 0, rounds |-> 0, pending |-> FALSE]

\* a 16 byte destination with a byte before it and a byte after it
EncBuff == Repeat(Indeterminate, NonceLen + 2)

NoEncoding == [pc |-> "none", counter |-> uint64_t(0), buff |-> EncBuff]

\* the process before any call of bruteforce
Idle ==
    /\ cpc = "idle"
    /\ ci = 0
    /\ call = [commit_data |-> NilString, sha_prefix |-> NilString,
               sha_prefix_half_hex_dig |-> FALSE, ncpus |-> NilFixnum]
    /\ workers = <<>>
    /\ th = <<>>
    /\ allocated = {}
    /\ mutex = Nobody
    /\ sigterm = "SIG_DFL"
    /\ proc = "running"
    /\ ret = Unset
    /\ sha1 = {}
    /\ before = [sigterm |-> "SIG_DFL"]
    /\ tested = <<>>
    /\ rejected = {}

Init ==
    /\ Idle
    /\ enc = NoEncoding

----------------------------------------------------------------------------
(* The calling thread: bruteforce and start_bruteforce *)

\* the checks of bruteforce without the check of the prefix length
ValidateNoLength(commit_data, sha_prefix, ncpus) ==
    IF TYPE(commit_data) # "T_STRING" \/ TYPE(sha_prefix) # "T_STRING" THEN "TypeError"
    ELSE IF TYPE(ncpus) # "T_FIXNUM" THEN "TypeError"
    ELSE IF FIX2INT(ncpus) <= 0 THEN "TypeError"
    ELSE "none"

\* the exception the checks of bruteforce raise, or "none"
Validate(commit_data, sha_prefix, ncpus) ==
    IF TYPE(commit_data) # "T_STRING" \/ TYPE(sha_prefix) # "T_STRING" THEN "TypeError"
    ELSE IF TYPE(ncpus) # "T_FIXNUM" THEN "TypeError"
    ELSE IF FIX2INT(ncpus) <= 0 THEN "TypeError"
    ELSE IF RSTRING_LEN(sha_prefix) > 20 THEN "ArgError"
    ELSE "none"

\* start_bruteforce up to the first pthread_create: the workers array, the
\* mutex and condition variable, and the setup loop
StartSetup(commit_data, prefix, has_half_dig, ncpus) ==
    /\ workers' = [i \in 0..(ncpus - 1) |->
            [setup_worker(commit_data, prefix, has_half_dig, i, ncpus)
                EXCEPT !.complete = 0]]
    /\ th' = [i \in 0..(ncpus - 1) |-> NoThread]
    /\ tested' = <<>>
    /\ allocated' = 0..(ncpus - 1)
    /\ mutex' = Nobody
    /\ ret' = Qnil
    /\ ci' = 0
    /\ cpc' = "create"

\* GitSha.bruteforce!(commit_data, sha_prefix, sha_prefix_half_hex_dig, ncpus)
bruteforce(commit_data, sha_prefix, sha_prefix_half_hex_dig, ncpus) ==
    /\ proc = "running"
    /\ cpc = "idle"
    /\ call' = [commit_data |-> commit_data, sha_prefix |-> sha_prefix,
                sha_prefix_half_hex_dig |-> sha_prefix_half_hex_dig, ncpus |-> ncpus]
    /\ before' = [sigterm |-> sigterm]
    /\ IF Validate(commit_data, sha_prefix, ncpus) # "none"
       THEN /\ cpc' = "raised"
            /\ ret' = Raised(Validate(commit_data, sha_prefix, ncpus))
            /\ UNCHANGED <<ci, workers, th, allocated, mutex, tested>>
       ELSE StartSetup(RSTRING_PTR(commit_data), RSTRING_PTR(sha_prefix),
                       sha_prefix_half_hex_dig, FIX2INT(ncpus))
    /\ UNCHANGED <<enc, sigterm, proc, sha1, rejected>>

NWorkers == FIX2INT(call.ncpus)

\* pthread_create(&workers[i].thread, NULL, worker_thread_main, &workers[i])
Create ==
    /\ proc = "running"
    /\ cpc = "create"
    /\ th' = [th EXCEPT ![ci] = [pc |-> "start", counter |-> workers[ci].counter,
                                 rounds |-> 0, pending |-> FALSE]]
    /\ ci' = ci + 1
    /\ cpc' = IF ci + 1 < NWorkers THEN "create" ELSE "cond_wait"
    /\ UNCHANGED <<enc, call, workers, allocated, mutex, sigterm, proc, ret, sha1, before, tested, rejected>>

\* pthread_cond_wait(&finished_cond_var, &finished_mutex), entered: the mutex,
\* which the caller never locked, is released and the caller blocks
CondWaitEnter ==
    /\ proc = "running"
    /\ cpc = "cond_wait"
    /\ mutex' = Nobody
    /\ cpc' = "waiting"
    /\ UNCHANGED <<enc, ci, call, workers, th, allocated, sigterm, proc, ret, sha1, before, tested, rejected>>

\* pthread_cond_wait wakes with no pthread_cond_signal (a spurious wakeup)
SpuriousWakeup ==
    /\ proc = "running"
    /\ cpc = "waiting"
    /\ cpc' = "wakeup"
    /\ UNCHANGED <<enc, ci, call, workers, th, allocated, mutex, sigterm, proc, ret, sha1, before, tested, rejected>>

\* pthread_cond_wait returns: the woken caller has locked the mutex again
CondWaitReturn ==
    /\ proc = "running"
    /\ cpc = "wakeup"
    /\ mutex = Nobody
    /\ mutex' = MainThread
    /\ cpc' = "scan"
    /\ ci' = 0
    /\ UNCHANGED <<enc, call, workers, th, allocated, sigterm, proc, ret, sha1, before, tested, rejected>>

\* the scan taking the result of the worker at i without reading complete
ScanUnchecked ==
    /\ proc = "running"
    /\ cpc = "scan"
    /\ ret' = IF ci < NWorkers THEN ResultOf(workers[ci]) ELSE ret
    /\ ci' = 0
    /\ cpc' = "kill"
    /\ UNCHANGED <<enc, call, workers, th, allocated, mutex, sigterm, proc, sha1, before, tested,
                   rejected>>

\* the loop that looks for a complete worker without its break
ScanNoBreak ==
    /\ proc = "running"
    /\ cpc = "scan"
    /\ IF ci < NWorkers
       THEN /\ ret' = IF workers[ci].complete # 0 THEN ResultOf(workers[ci]) ELSE ret
            /\ ci' = ci + 1
            /\ cpc' = cpc
       ELSE /\ ret' = ret
            /\ ci' = 0
            /\ cpc' = "kill"
    /\ UNCHANGED <<enc, call, workers, th, allocated, mutex, sigterm, proc, sha1, before, tested,
                   rejected>>

\* one round of the loop that looks for a complete worker
Scan ==
    /\ proc = "running"
    /\ cpc = "scan"
    /\ IF ci < NWorkers /\ workers[ci].complete = 0
       THEN /\ ci' = ci + 1
            /\ UNCHANGED <<cpc, ret>>
       ELSE /\ ret' = IF ci < NWorkers THEN ResultOf(workers[ci]) ELSE ret
            /\ ci' = 0
            /\ cpc' = "kill"
    /\ UNCHANGED <<enc, call, workers, th, allocated, mutex, sigterm, proc, sha1, before, tested, rejected>>

\* destroy_worker: pthread_kill(w->thread, SIGTERM)
Kill ==
    /\ proc = "running"
    /\ cpc = "kill"
    /\ th' = [th EXCEPT ![ci].pending = (th[ci].pc # "exited")]
    /\ cpc' = "join"
    /\ UNCHANGED <<enc, ci, call, workers, allocated, mutex, sigterm, proc, ret, sha1, before, tested, rejected>>

\* destroy_worker without the pthread_join
JoinSkipped ==
    /\ proc = "running"
    /\ cpc = "join"
    /\ cpc' = "free"
    /\ UNCHANGED <<enc, ci, call, workers, th, allocated, mutex, sigterm, proc, ret, sha1, before,
                   tested, rejected>>

\* destroy_worker: pthread_join(w->thread, NULL)
Join ==
    /\ proc = "running"
    /\ cpc = "join"
    /\ th[ci].pc = "exited"
    /\ th' = [th EXCEPT ![ci].pc = "joined"]
    /\ cpc' = "free"
    /\ UNCHANGED <<enc, ci, call, workers, allocated, mutex, sigterm, proc, ret, sha1, before, tested, rejected>>

\* destroy_worker: free(w->scratch_buff); free(w->prefix)
Free ==
    /\ proc = "running"
    /\ cpc = "free"
    /\ allocated' = allocated \ {ci}
    /\ ci' = ci + 1
    /\ cpc' = IF ci + 1 < NWorkers THEN "kill" ELSE "unlock"
    /\ UNCHANGED <<enc, call, workers, th, mutex, sigterm, proc, ret, sha1, before, tested, rejected>>

\* pthread_mutex_unlock, the two destroys, free(workers), return ret
Return ==
    /\ proc = "running"
    /\ cpc = "unlock"
    /\ mutex' = Nobody
    /\ cpc' = "returned"
    /\ UNCHANGED <<enc, ci, call, workers, th, allocated, sigterm, proc, ret, sha1, before, tested, rejected>>

----------------------------------------------------------------------------
(* The worker threads: worker_thread_main *)

Running(i) ==
    /\ proc = "running"
    /\ i \in DOMAIN th

\* the start of worker_thread_main: signal(SIGTERM, thread_term)
WorkerStart(i) ==
    /\ Running(i)
    /\ th[i].pc = "start"
    /\ sigterm' = "thread_term"
    /\ th' = [th EXCEPT ![i].pc = "loop"]
    /\ UNCHANGED <<enc, cpc, ci, call, workers, allocated, mutex, proc, ret, sha1, before, tested, rejected>>

\* the message SHA1 reads: scratch_len bytes of the buffer
Message(buff, w) == SubSeq(buff, 1, w.scratch_len)

\* SHA1 is a function: a message hashed before has the digest it had then.
\* The digest of a message the loop rejected is not kept (the loop overwrites
\* its local sha); hashed again, the message has a digest the test rejects.
SHA1Is(msg, d, w) ==
    /\ d \in Digests
    /\ \A e \in sha1 : e[1] = msg => e[2] = d
    /\ msg \in rejected => "match" \notin TestOutcomes(d, w)

\* a match without the memcpy to output_sha
MatchedNoCopy(w, buff, d) == [w EXCEPT !.scratch_buff = buff]

\* lines 52-55 on a match: the buffer holds the nonce, memcpy(output_sha, sha, 20)
Matched(w, buff, d) == [w EXCEPT !.scratch_buff = buff, !.sha = d]

\* one round of bruteforce_loop / bruteforce_loop_with_half_dig
WorkerLoop(i) ==
    /\ Running(i)
    /\ th[i].pc = "loop"
    /\ th[i].rounds < MaxRounds
    /\ LET w == workers[i]
           buff == write_counter_hex(w.scratch_buff, w.counter_offset, uint64_t(th[i].counter))
           msg == Message(buff, w)
       IN \E d \in Digests :
            /\ SHA1Is(msg, d, w)
            /\ \E outcome \in TestOutcomes(d, w) :
                 \/ /\ outcome = "match"
                    /\ workers' = [workers EXCEPT ![i] = Matched(w, buff, d)]
                    /\ th' = [th EXCEPT ![i].pc = "complete"]
                    /\ sha1' = sha1 \cup {<<msg, d>>}
                    /\ UNCHANGED <<proc, rejected>>
                 \/ /\ outcome = "nomatch"
                    /\ workers' = [workers EXCEPT ![i].scratch_buff = buff]
                    /\ th' = [th EXCEPT ![i].counter = CounterAdd(th[i].counter, w.stride),
                                         ![i].rounds = @ + 1]
                    /\ rejected' = rejected \cup {msg}
                    /\ UNCHANGED <<proc, sha1>>
                 \/ /\ outcome = "crash"
                    /\ workers' = [workers EXCEPT ![i].scratch_buff = buff]
                    /\ proc' = "crashed"
                    /\ UNCHANGED <<th, sha1, rejected>>
    /\ tested' = IF th[i].counter \in DOMAIN tested THEN tested
                 ELSE tested @@ (th[i].counter :> i)
    /\ UNCHANGED <<enc, cpc, ci, call, allocated, mutex, sigterm, ret, before>>

\* worker_thread_main without w->complete = 1
WorkerCompleteSkipped(i) ==
    /\ Running(i)
    /\ th[i].pc = "complete"
    /\ th' = [th EXCEPT ![i].pc = "lock"]
    /\ UNCHANGED <<enc, cpc, ci, call, workers, allocated, mutex, sigterm, proc, ret, sha1, before,
                   tested, rejected>>

\* w->complete = 1
WorkerComplete(i) ==
    /\ Running(i)
    /\ th[i].pc = "complete"
    /\ workers' = [workers EXCEPT ![i].complete = 1]
    /\ th' = [th EXCEPT ![i].pc = "lock"]
    /\ UNCHANGED <<enc, cpc, ci, call, allocated, mutex, sigterm, proc, ret, sha1, before, tested, rejected>>

\* pthread_mutex_lock(w->finished_mutex)
WorkerLock(i) ==
    /\ Running(i)
    /\ th[i].pc = "lock"
    /\ mutex = Nobody
    /\ mutex' = Worker(i)
    /\ th' = [th EXCEPT ![i].pc = "signal"]
    /\ UNCHANGED <<enc, cpc, ci, call, workers, allocated, sigterm, proc, ret, sha1, before, tested, rejected>>

\* pthread_cond_signal(w->finished_cond_var): wakes the caller if it waits
WorkerSignal(i) ==
    /\ Running(i)
    /\ th[i].pc = "signal"
    /\ cpc' = IF cpc = "waiting" THEN "wakeup" ELSE cpc
    /\ th' = [th EXCEPT ![i].pc = "unlock"]
    /\ UNCHANGED <<enc, ci, call, workers, allocated, mutex, sigterm, proc, ret, sha1, before, tested, rejected>>

\* pthread_mutex_unlock(w->finished_mutex); return NULL
WorkerUnlock(i) ==
    /\ Running(i)
    /\ th[i].pc = "unlock"
    /\ mutex' = Nobody
    /\ th' = [th EXCEPT ![i].pc = "exited"]
    /\ UNCHANGED <<enc, cpc, ci, call, workers, allocated, sigterm, proc, ret, sha1, before, tested, rejected>>

\* SIGTERM is delivered to the thread: thread_term calls pthread_exit, or,
\* with no handler installed, the default action ends the process
WorkerSigterm(i) ==
    /\ Running(i)
    /\ th[i].pending
    /\ th[i].pc \notin {"exited", "joined"}
    /\ IF sigterm = "thread_term"
       THEN /\ th' = [th EXCEPT ![i].pc = "exited", ![i].pending = FALSE]
            /\ proc' = proc
       ELSE /\ proc' = "killed"
            /\ th' = th
    /\ UNCHANGED <<enc, cpc, ci, call, workers, allocated, mutex, sigterm, ret, sha1, before, tested, rejected>>

WorkerStep(i) ==
    \/ WorkerStart(i)
    \/ WorkerLoop(i)
    \/ WorkerComplete(i)
    \/ WorkerLock(i)
    \/ WorkerSignal(i)
    \/ WorkerUnlock(i)

----------------------------------------------------------------------------
(* Specifications *)

\* a call of GitSha.bruteforce! with arguments from the given sets
CallFrom(commit_datas, sha_prefixes, half_hex_digs, ncpuss) ==
    \E commit_data \in commit_datas, sha_prefix \in sha_prefixes,
       sha_prefix_half_hex_dig \in half_hex_digs, ncpus \in ncpuss :
        bruteforce(commit_data, sha_prefix, sha_prefix_half_hex_dig, ncpus)

Call == CallFrom(CommitData, Prefixes, BOOLEAN, Ncpus)

MainStep ==
    \/ Create
    \/ CondWaitEnter
    \/ CondWaitReturn
    \/ Scan
    \/ Kill
    \/ Join
    \/ Free
    \/ Return

WorkerIds == 0..(MaxCpus + PartitionCpus)

Threads ==
    \/ MainStep
    \/ SpuriousWakeup
    \/ \E i \in WorkerIds : WorkerStep(i)
    \/ \E i \in WorkerIds : WorkerSigterm(i)

Next == Call \/ Threads

Spec == Init /\ [][Next]_vars

\* the scheduler runs every thread that can run; a spurious wakeup need not happen
Fairness ==
    /\ WF_vars(MainStep)
    /\ \A i \in WorkerIds : WF_vars(WorkerStep(i)) /\ WF_vars(WorkerSigterm(i))

FairSpec == Spec /\ Fairness

\* calls with PartitionCpus workers and the 20 byte prefix
PartitionCall ==
    CallFrom({Str(<<116>>)}, {Str(<<171>> \o Repeat(0, 19))}, {FALSE}, {Fix(PartitionCpus)})

PartitionNext == PartitionCall \/ Threads

PartitionSpec == Init /\ [][PartitionNext]_vars

\* calls with one worker, the empty prefix and the commit_data of FramingData
FramingCall == CallFrom(FramingData, {Str(<<>>)}, {FALSE}, {Fix(1)})

FramingNext == FramingCall \/ Threads

FramingSpec == Init /\ [][FramingNext]_vars

\* the 16 bit words of the counters of the encoder specification
EncWords == {0, 1, 4660, 43981, 65535}

\* uint64_t counters: 0, 1, 0xffffffffffffffff and others with every hex digit
EncCounters == {<<a, b, c, d>> : a \in EncWords, b \in EncWords, c \in EncWords, d \in EncWords}

EncoderInit ==
    /\ Idle
    /\ \E counter \in EncCounters :
        enc = [pc |-> "call", counter |-> counter, buff |-> EncBuff]

\* write_counter_hex(buff + 1, counter)
Encode ==
    /\ enc.pc = "call"
    /\ enc' = [enc EXCEPT !.pc = "done", !.buff = write_counter_hex(enc.buff, 1, enc.counter)]
    /\ UNCHANGED <<cpc, ci, call, workers, th, allocated, mutex, sigterm, proc, ret, sha1,
                   rejected, before, tested>>

EncoderNext == Encode

EncoderSpec == EncoderInit /\ [][EncoderNext]_vars

\* calls with two workers, the prefix a0 with the half digit flag, and an
\* empty or a one byte commit_data
RewriteCall == CallFrom({Str(<<>>), Str(<<116>>)}, {Str(<<160>>)}, {TRUE}, {Fix(2)})

RewriteNext == RewriteCall \/ Threads

RewriteSpec == Init /\ [][RewriteNext]_vars

----------------------------------------------------------------------------
(* Properties *)

Returned == cpc = "returned"

ReturnedArray == cpc = "returned" /\ ret.kind = "Array"

Prefix == RSTRING_PTR(call.sha_prefix)

Content == RSTRING_PTR(call.commit_data)

HalfDig == call.sha_prefix_half_hex_dig

\* C1, as claimed: whenever a result is returned, the first len(prefix) bytes
\* of the returned digest equal the prefix, with or without the half digit flag.
DigestStartsWithPrefix ==
    ReturnedArray => \A k \in 1..Len(Prefix) : ret.sha[k] = Prefix[k]

\* C1, amended: without the half digit flag the first len(prefix) bytes of the
\* returned digest equal the prefix; with the flag and a non-empty prefix the
\* first len(prefix) - 1 bytes equal the prefix and the byte after them has the
\* high nibble of the last byte of the prefix.
DigestStartsWithEffectivePrefix ==
    ReturnedArray =>
        IF ~HalfDig THEN \A k \in 1..Len(Prefix) : ret.sha[k] = Prefix[k]
        ELSE Len(Prefix) >= 1 =>
                /\ \A k \in 1..(Len(Prefix) - 1) : ret.sha[k] = Prefix[k]
                /\ ret.sha[Len(Prefix)] \div 16 = Prefix[Len(Prefix)] \div 16

\* a result for prefix a0 with the half digit flag whose digest starts with ab
HalfDigitResultDiffersInLowNibble ==
    /\ ReturnedArray
    /\ HalfDig
    /\ Prefix = <<160>>
    /\ ret.sha[1] = 171

\* C2: once a worker has matched and signalled completion, the call returns.
MatchLeadsToReturn ==
    (\E i \in DOMAIN th : workers[i].complete = 1 /\ th[i].pc \in {"unlock", "exited", "joined"})
        ~> Returned

\* C3: the returned digest is the digest SHA1 gave to the returned buffer, and
\* both are those of one complete worker.
DigestIsHashOfContent ==
    ReturnedArray =>
        /\ <<ret.buf, ret.sha>> \in sha1
        /\ \E i \in DOMAIN workers :
            /\ workers[i].complete = 1
            /\ ret.buf = SubSeq(workers[i].scratch_buff, 1, workers[i].scratch_len)
            /\ ret.sha = workers[i].sha

\* a result returned when two workers are complete with different digests
ResultAmongTwoMatches ==
    /\ ReturnedArray
    /\ NWorkers = 2
    /\ workers[0].complete = 1
    /\ workers[1].complete = 1
    /\ workers[0].sha # workers[1].sha

\* C4, as claimed: with the half digit flag and len(prefix) < 20 the high nibble
\* of digest[len(prefix)] is the nibble in the last byte of the prefix.
NibbleAfterWholePrefix ==
    (ReturnedArray /\ HalfDig /\ Len(Prefix) >= 1 /\ Len(Prefix) < DigestLen) =>
        ret.sha[Len(Prefix) + 1] \div 16 = Prefix[Len(Prefix)] \div 16

\* C4, amended: with the half digit flag and a prefix of 1 to 20 bytes the high
\* nibble of digest[len(prefix) - 1] is the high nibble of the last byte of the
\* prefix.
NibbleOfLastPrefixByte ==
    (ReturnedArray /\ HalfDig /\ Len(Prefix) >= 1) =>
        ret.sha[Len(Prefix)] \div 16 = Prefix[Len(Prefix)] \div 16

\* a result for the 20 byte prefix with the half digit flag
HalfDigitResultForTwentyBytes ==
    /\ ReturnedArray
    /\ HalfDig
    /\ Len(Prefix) = DigestLen

\* C5: a call that returns returns the pair of a complete worker, never nil.
NeverReturnsNil ==
    Returned => /\ ret.kind = "Array"
                /\ \E i \in DOMAIN workers : workers[i].complete = 1

\* C6: no two workers test the same counter value: a round of a worker's
\* loop never tests a value that another worker tested before.
CountersDisjoint ==
    [][\A i \in DOMAIN th :
        (WorkerLoop(i) /\ th[i].counter \in DOMAIN tested) => tested[th[i].counter] = i]_vars

\* C7: when the call returns every worker thread is joined and every buffer
\* freed, and a buffer is freed only after its thread is joined.
DestroyedOnReturn ==
    /\ Returned => /\ allocated = {}
                   /\ \A i \in DOMAIN th : th[i].pc = "joined"
    /\ \A i \in DOMAIN th : i \notin allocated => th[i].pc = "joined"

\* a return after a worker was killed in its loop
ReturnedAfterKillingLoop ==
    /\ Returned
    /\ NWorkers = 2
    /\ \E i \in DOMAIN workers : workers[i].complete = 0

\* C8: after the call returns the disposition of SIGTERM is what it was
\* before the call.
SigtermRestored == Returned => sigterm = before.sigterm

\* the arguments the checks of bruteforce must reject
BadArguments ==
    \/ TYPE(call.commit_data) # "T_STRING"
    \/ TYPE(call.sha_prefix) # "T_STRING"
    \/ TYPE(call.ncpus) # "T_FIXNUM"
    \/ FIX2INT(call.ncpus) <= 0
    \/ RSTRING_LEN(call.sha_prefix) > 20

\* C9: bad arguments raise before any worker, buffer or thread exists, and
\* start_bruteforce runs only with ncpus > 0 and a prefix of at most 20 bytes.
ValidatedAtBoundary ==
    /\ cpc = "raised" =>
        /\ BadArguments
        /\ ret.kind \in {"TypeError", "ArgError"}
        /\ workers = <<>> /\ th = <<>> /\ allocated = {}
    /\ cpc \notin {"idle", "raised"} => ~BadArguments

\* a call with a 21 byte prefix and otherwise good arguments has raised
RaisedForLongPrefix ==
    /\ cpc = "raised"
    /\ TYPE(call.commit_data) = "T_STRING"
    /\ TYPE(call.sha_prefix) = "T_STRING"
    /\ RSTRING_LEN(call.sha_prefix) = 21
    /\ TYPE(call.ncpus) = "T_FIXNUM"
    /\ FIX2INT(call.ncpus) > 0

RECURSIVE DecimalValue(_)
DecimalValue(digits) ==
    IF digits = <<>> THEN 0
    ELSE 10 * DecimalValue(SubSeq(digits, 1, Len(digits) - 1)) + (digits[Len(digits)] - 48)

\* digits is the decimal numeral of n
IsDecimalOf(digits, n) ==
    /\ Len(digits) >= 1
    /\ \A k \in 1..Len(digits) : digits[k] \in 48..57
    /\ Len(digits) > 1 => digits[1] # 48
    /\ DecimalValue(digits) = n

\* buf is "commit ", the decimal length of all that follows the header, a NUL,
\* the content, two newlines and 16 more bytes; h is the length of the header
FramedWithHeader(buf, content, h) ==
    /\ h > 8
    /\ Len(buf) = h + Len(content) + 18
    /\ SubSeq(buf, 1, 7) = CommitSp
    /\ IsDecimalOf(SubSeq(buf, 8, h - 1), Len(content) + 2 + 16)
    /\ buf[h] = 0
    /\ SubSeq(buf, h + 1, h + Len(content)) = content
    /\ buf[h + Len(content) + 1] = 10
    /\ buf[h + Len(content) + 2] = 10

IsHexNonce(bytes) ==
    /\ Len(bytes) = NonceLen
    /\ \A k \in 1..NonceLen : \E n \in 1..16 : bytes[k] = hex_lut[n]

\* C10: every worker's buffer, and the returned content, is header + content
\* + two newlines + 16 nonce bytes; the header is "commit ", the decimal of
\* len(content) + 18 and a NUL; counter_offset is the total length - 16.
BufferLayout ==
    /\ \A i \in DOMAIN workers :
        LET w == workers[i]
            buf == SubSeq(w.scratch_buff, 1, w.scratch_len)
        IN  /\ \E h \in 1..Len(buf) : FramedWithHeader(buf, Content, h)
            /\ w.counter_offset = w.scratch_len - 16
            /\ \/ IsHexNonce(SubSeq(buf, w.counter_offset + 1, w.scratch_len))
               \/ /\ th[i].counter = w.counter
                  /\ \A k \in (w.counter_offset + 1)..w.scratch_len : buf[k] = Indeterminate
    /\ ReturnedArray =>
        /\ \E h \in 1..Len(ret.buf) : FramedWithHeader(ret.buf, Content, h)
        /\ IsHexNonce(SubSeq(ret.buf, Len(ret.buf) - 15, Len(ret.buf)))

\* a result for an 82 byte commit_data, whose length field has three digits
ResultWithThreeDigitLength ==
    /\ ReturnedArray
    /\ Len(Content) = 82

\* the value of a lowercase hex digit character, or -1
HexValue(ch) ==
    IF ch \in 48..57 THEN ch - 48
    ELSE IF ch \in 97..102 THEN ch - 87
    ELSE -1

\* the 16 bit word that four hex characters spell, the least significant first
WordOfHex(chars) ==
    HexValue(chars[1]) + 16 * HexValue(chars[2]) + 256 * HexValue(chars[3])
        + 4096 * HexValue(chars[4])

\* the 16 characters that write_counter_hex wrote in enc.buff
EncChars == SubSeq(enc.buff, 2, NonceLen + 1)

\* C11: write_counter_hex writes exactly 16 lowercase hex characters, the
\* character at position i being the digit of bits 4i .. 4i+3 of the counter
\* (least significant nibble first); counter 1 gives "1000000000000000"; and
\* no other counter gives the same characters.
NonceIsLittleEndianHex ==
    enc.pc = "done" =>
        /\ \A k \in 1..NonceLen : HexValue(EncChars[k]) \in 0..15
        /\ \A j \in 0..3 : WordOfHex(SubSeq(EncChars, 4 * j + 1, 4 * j + 4)) = enc.counter[j + 1]
        /\ enc.buff[1] = Indeterminate /\ enc.buff[NonceLen + 2] = Indeterminate
        /\ enc.counter = <<1, 0, 0, 0>> => EncChars = <<49>> \o Repeat(48, NonceLen - 1)
        /\ \A other \in EncCounters :
            write_counter_hex(EncBuff, 1, other) = enc.buff => other = enc.counter

\* the counter 0xffffabcd12340001 has been encoded
EncodedSixteenDigitCounter ==
    /\ enc.pc = "done"
    /\ enc.counter = <<1, 4660, 43981, 65535>>

\* the 16 nonce bytes that end a buffer
NonceOf(buf) == SubSeq(buf, Len(buf) - NonceLen + 1, Len(buf))

\* the 16 hex characters spell, least significant nibble first, the counter c
DecodesTo(chars, c) ==
    \A j \in 0..3 : WordOfHex(SubSeq(chars, 4 * j + 1, 4 * j + 4)) = uint64_t(c)[j + 1]

\* C12: a call with the empty prefix and no half digit returns, no worker
\* having advanced its counter, the buffer of a worker whose nonce decodes
\* to that worker's index.
EmptyPrefixMatchesAtOnce ==
    (cpc = "create" /\ Prefix = <<>> /\ ~HalfDig)
        ~> /\ ReturnedArray
           /\ \A i \in DOMAIN th : th[i].rounds = 0
           /\ \E i \in DOMAIN workers :
                /\ ret = ResultOf(workers[i])
                /\ DecodesTo(NonceOf(ret.buf), i)

\* worker i has called pthread_cond_signal
Signalled(i) == th[i].pc \in {"unlock", "exited", "joined"}

\* a worker signals the condition only when it has set complete, and a
\* worker that has signalled or ended does not signal again
SignalsOnceAtMost(i) ==
    /\ (th[i].pc = "signal" /\ th'[i].pc # "signal") =>
            \/ th'[i].pc = "unlock" /\ workers[i].complete = 1
            \/ th'[i].pc = "exited" /\ th[i].pending
    /\ th'[i].pc = "unlock" => th[i].pc \in {"signal", "unlock"}
    /\ Signalled(i) => th'[i].pc \in {"unlock", "exited", "joined"}

\* C13, as claimed: a worker that has set complete signals the condition
\* exactly once: it signals only after setting complete and never twice,
\* and its thread ends only after it has signalled.
MatchedSignalsExactlyOnce ==
    [][\A i \in DOMAIN th \cap DOMAIN th' :
        /\ SignalsOnceAtMost(i)
        /\ (workers[i].complete = 1 /\ th[i].pc # "exited" /\ th'[i].pc = "exited")
            => th[i].pc = "unlock"]_vars

\* C13, amended: a worker signals the condition only after it has set
\* complete and never twice; the thread of a worker that has set complete
\* ends after its one signal or by the SIGTERM of destroy_worker.
MatchedSignalsAtMostOnce ==
    [][\A i \in DOMAIN th \cap DOMAIN th' :
        /\ SignalsOnceAtMost(i)
        /\ (workers[i].complete = 1 /\ th[i].pc # "exited" /\ th'[i].pc = "exited")
            => th[i].pc = "unlock" \/ (th[i].pending /\ cpc = "join")]_vars

\* after one worker has signalled and the caller has woken, another worker
\* that has set complete is sent SIGTERM before it has signalled
SilentMatchKilled ==
    \E i, j \in DOMAIN th :
        /\ workers[i].complete = 1 /\ Signalled(i)
        /\ workers[j].complete = 1 /\ th[j].pc \in {"lock", "signal"} /\ th[j].pending

\* C14: the scan starts at worker 0, passes a worker only when it reads that
\* worker's complete as 0, and ends at the first worker whose complete it
\* reads as set, whose buffer and digest become the result; with no such
\* worker the result stays nil.
WinnerIsFirstSeenComplete ==
    [][/\ (cpc # "scan" /\ cpc' = "scan") => ci' = 0
       /\ cpc = "scan" =>
            /\ ci' # ci => \/ ci' = ci + 1 /\ workers[ci].complete = 0 /\ cpc' = "scan"
                           \/ cpc' = "kill"
            /\ ret' # ret => /\ ci < NWorkers
                             /\ workers[ci].complete = 1
                             /\ ret' = ResultOf(workers[ci])
                             /\ cpc' = "kill"
            /\ cpc' = "kill" => \/ ci = NWorkers /\ ret' = Qnil
                                \/ ci < NWorkers /\ ret' = ResultOf(workers[ci])
       /\ cpc # "scan" => ret' = ret \/ cpc = "idle"]_vars

\* the call has returned the result of worker 1 although worker 0 is
\* complete as well: worker 0 completed after the scan had passed it
LaterWorkerWonOverLowerIndex ==
    /\ ReturnedArray
    /\ NWorkers = 2
    /\ workers[0].complete = 1
    /\ workers[1].complete = 1
    /\ ret = ResultOf(workers[1])
    /\ ret # ResultOf(workers[0])

\* the message worker w hashes for the counter c
MessageFor(w, c) == Message(write_counter_hex(w.scratch_buff, w.counter_offset, uint64_t(c)), w)

\* C15: the nonce of the returned buffer decodes to a counter c that is
\* congruent to the winning worker's index modulo the number of workers, and
\* every smaller counter of that worker's sequence index, index + W, ... was
\* tested and rejected.
NonceInWinnersSequence ==
    ReturnedArray =>
        \A i \in DOMAIN workers :
            (workers[i].complete = 1 /\ ret = ResultOf(workers[i])) =>
                \E c \in 0..(2 ^ CounterBits - 1) :
                    /\ DecodesTo(NonceOf(ret.buf), c)
                    /\ c % NWorkers = i
                    /\ \A b \in 0..(c - 1) :
                        b % NWorkers = i => MessageFor(workers[i], b) \in rejected

\* the thread of worker i has been created and has not ended
Live(i) == th[i].pc \in {"start", "loop", "complete", "lock", "signal", "unlock"}

\* the calling thread takes a step of its scan loop
ScanStep == cpc = "scan" /\ (ci' # ci \/ cpc' # cpc)

\* C16, as claimed: the calling thread takes a worker's buffer and digest
\* only after the worker has left its loop and set complete, frees a worker's
\* buffer and prefix only after the worker's thread is joined, and reads no
\* field of the worker_t of a thread that is live: live threads share only
\* the mutex and the condition variable.
WorkerStatePrivateWhileLive ==
    [][/\ ret' # ret =>
            \/ cpc = "idle"
            \/ /\ ScanStep
               /\ workers[ci].complete = 1
               /\ th[ci].pc \notin {"unborn", "start", "loop", "complete"}
       /\ allocated' # allocated =>
            \/ cpc = "idle"
            \/ cpc = "free" /\ th[ci].pc = "joined"
       /\ (ScanStep /\ ci < NWorkers) => ~Live(ci)]_vars

\* C16, amended: the calling thread takes a worker's buffer and digest only
\* after the worker has left its loop and set complete, and frees a worker's
\* buffer and prefix only after the worker's thread is joined; of a live
\* thread's worker_t it reads complete alone.
WorkerBuffersPrivateWhileLive ==
    [][/\ ret' # ret =>
            \/ cpc = "idle"
            \/ /\ ScanStep
               /\ workers[ci].complete = 1
               /\ th[ci].pc \notin {"unborn", "start", "loop", "complete"}
       /\ allocated' # allocated =>
            \/ cpc = "idle"
            \/ cpc = "free" /\ th[ci].pc = "joined"
       /\ (ScanStep /\ ci < NWorkers /\ workers[ci].complete = 0) => ret' = ret]_vars

\* the scan has taken a result while another worker is in its loop
ResultTakenWhileOtherInLoop ==
    /\ cpc = "kill"
    /\ ret.kind = "Array"
    /\ \E i \in DOMAIN th : th[i].pc = "loop" /\ th[i].rounds > 0

\* C17: for arguments the checks of bruteforce accept, every worker compares
\* within the prefix and the digest: without the half digit flag prefix_len
\* is in 0..20; with it prefix_len is in 0..19, the half digit was read from
\* the prefix, 8 * prefix_len + 4 is at most 160, and no read faults.
MatcherReadsInBounds ==
    /\ proc # "crashed"
    /\ \A i \in DOMAIN workers :
        IF workers[i].prefix_has_half_dig = 0
        THEN workers[i].prefix_len \in 0..DigestLen
        ELSE /\ workers[i].prefix_len \in 0..(DigestLen - 1)
             /\ 8 * workers[i].prefix_len + 4 <= 8 * DigestLen
             /\ workers[i].prefix_half_dig \in 0..15

\* C18: in every state each worker's buffer is the buffer setup_worker built
\* in every byte outside the 16 nonce bytes at counter_offset (the header,
\* the content, the two newlines), and its allocated length, scratch_len and
\* counter_offset are those of setup_worker.
OnlyNonceChanges ==
    \A i \in DOMAIN workers :
        LET w == workers[i]
            built == setup_worker(Content, Prefix, HalfDig, i, NWorkers)
        IN  /\ Len(w.scratch_buff) = Len(built.scratch_buff)
            /\ w.scratch_len = built.scratch_len
            /\ w.counter_offset = built.counter_offset
            /\ \A k \in 1..Len(w.scratch_buff) :
                k - 1 \notin w.counter_offset..(w.counter_offset + NonceLen - 1)
                    => w.scratch_buff[k] = built.scratch_buff[k]

\* a worker has written a second nonce over its first and matched on it
MatchedOnSecondNonce ==
    \E i \in DOMAIN th :
        /\ th[i].rounds >= 1
        /\ workers[i].complete = 1
        /\ DecodesTo(NonceOf(SubSeq(workers[i].scratch_buff, 1, workers[i].scratch_len)),
                     th[i].counter)
        /\ th[i].counter # workers[i].counter

\* C19: whenever pthread_kill has sent SIGTERM to a worker thread that has
\* not ended, thread_term is the disposition of SIGTERM, and the default
\* action never ends the process.
HandlerInstalledBeforeKill ==
    /\ proc # "killed"
    /\ \A i \in DOMAIN th : th[i].pending => sigterm = "thread_term"

\* C20: the calling thread owns the mutex when it starts to wait on the
\* condition variable and when it unlocks and destroys the mutex, and no
\* worker owns the mutex when it is killed or when the mutex is destroyed.
CallerOwnsMutex ==
    /\ cpc \in {"cond_wait", "unlock"} => mutex = MainThread
    /\ \A i \in DOMAIN th :
        (cpc \in {"kill", "unlock"} \/ th[i].pending) => mutex # Worker(i)

============================================================================
